---------------------------- MODULE Spec2Model ----------------------------
(***************************************************************************)
(* Model of the orientation arm model (OrientationArmModel) of the         *)
(* webxr-physics repository, src/arms-and-feet/src/physics/                *)
(* physicsHandler.ts lines 187-386, and of its caller, the Daydream        *)
(* simulator frame loop (src/unnamed/part_000).                            *)
(*                                                                         *)
(* Numbers.  The program computes in IEEE doubles; the model computes in   *)
(* fixed point: a real r is the integer round(r * S).  Lengths are         *)
(* metres * S, angles radians * S, quaternion components * S; degrees are  *)
(* kept in hundredths of a degree and times in milliseconds.  Every        *)
(* three.js routine the code calls (Quaternion.slerp / multiply / inverse  *)
(* / setFromEuler, Euler.setFromQuaternion, Vector3.applyQuaternion /      *)
(* angleTo) is transcribed step by step from the library, each floating    *)
(* point operation replaced by the rounded fixed-point one.  The library   *)
(* routines are written as functions, the methods of the arm model as      *)
(* operators.                                                              *)
(***************************************************************************)
EXTENDS Integers, Sequences, FiniteSets, TLC

(***************************************************************************)
(* Fixed-point arithmetic                                                  *)
(***************************************************************************)
\* one unit of the fixed-point representation: 1.0 is S
S == 100 * 100

\* pi/2 * S and pi * S
HalfPiS == 2 * 7854

PiS == 2 * HalfPiS

\* the element of a one-element set
The(s) == CHOOSE x \in s : TRUE

\* Math.abs
Abs(a) == IF a < 0 THEN -a ELSE a

\* Math.min / Math.max
Min(a, b) == IF a < b THEN a ELSE b

Max(a, b) == IF a > b THEN a ELSE b

\* a / b rounded to the nearest integer (b > 0)
RDiv(a, b) == (2 * a + b) \div (2 * b)

\* product of two fixed-point numbers
Mul(a, b) == RDiv(a * b, S)

\* quotient of two fixed-point numbers (b > 0)
Div(a, b) == RDiv(a * S, b)

\* largest r in lo..hi with r * r <= n (hi * hi > n on entry)
ISqrtIn[n \in Nat, lo \in Nat, hi \in Nat] ==
    IF hi - lo <= 1 THEN lo
    ELSE IF ((lo + hi) \div 2) * ((lo + hi) \div 2) <= n
         THEN ISqrtIn[n, (lo + hi) \div 2, hi]
         ELSE ISqrtIn[n, lo, (lo + hi) \div 2]

\* integer square root, 0 <= n < 46340 * 46340
ISqrt[n \in Nat] == ISqrtIn[n, 0, 46340]

\* r or r + 1, whichever is nearer the square root of n, r being ISqrt[n]
SqrtRound[n \in Nat, r \in Nat] == IF n - r * r > r THEN r + 1 ELSE r

\* Math.sqrt of a fixed-point number, to the nearest unit
Sqrt[a \in Nat] == SqrtRound[a * S, ISqrt[a * S]]

\* sine of x in [-pi/2, pi/2]: its Taylor polynomial up to x^9, by Horner,
\* kept within [-1, 1] as Math.sin is
SinCore[x \in Int] ==
    LET x2 == Mul(x, x)
        p4 == S - RDiv(x2, 72)
        p3 == S - RDiv(Mul(x2, p4), 42)
        p2 == S - RDiv(Mul(x2, p3), 20)
        p1 == S - RDiv(Mul(x2, p2), 6)
    IN  Max(-S, Min(S, Mul(x, p1)))

\* Math.sin
Sin[x \in Int] ==
    IF x > PiS THEN Sin[x - 2 * PiS]
    ELSE IF x < -PiS THEN Sin[x + 2 * PiS]
    ELSE IF x > HalfPiS THEN SinCore[PiS - x]
    ELSE IF x < -HalfPiS THEN SinCore[-PiS - x]
    ELSE SinCore[x]

\* Math.cos
Cos[x \in Int] == Sin[x + HalfPiS]

\* least a in lo..hi with Cos[a] <= c (Cos does not increase on [0, pi])
AcosIn[c \in Int, lo \in Nat, hi \in Nat] ==
    IF lo >= hi THEN lo
    ELSE IF Cos[(lo + hi) \div 2] <= c
         THEN AcosIn[c, lo, (lo + hi) \div 2]
         ELSE AcosIn[c, (lo + hi) \div 2 + 1, hi]

\* Math.acos for c in [-S, S]: in [0, pi], Acos[S] = 0
Acos[c \in Int] == AcosIn[c, 0, PiS]

\* least a in lo..hi with Sin[a] >= s (Sin does not decrease on [0, pi/2])
AsinIn[s \in Int, lo \in Nat, hi \in Nat] ==
    IF lo >= hi THEN lo
    ELSE IF Sin[(lo + hi) \div 2] >= s
         THEN AsinIn[s, lo, (lo + hi) \div 2]
         ELSE AsinIn[s, (lo + hi) \div 2 + 1, hi]

\* Math.asin for s in [-S, S]: in [-pi/2, pi/2], odd, Asin[0] = 0
Asin[s \in Int] == IF s < 0 THEN -AsinIn[-s, 0, HalfPiS] ELSE AsinIn[s, 0, HalfPiS]

\* the clamp to [-1, 1] three.js applies before asin and acos
ClampUnit[a \in Int] == Max(-S, Min(S, a))

\* Math.atan2(y, x) of a point at distance r > 0 from the origin
Atan2At[y \in Int, x \in Int, r \in Nat] ==
    IF r = 0 THEN 0
    ELSE IF Abs(y) <= Abs(x)
         THEN IF x > 0 THEN Asin[ClampUnit[Div(y, r)]]
              ELSE IF y >= 0 THEN PiS - Asin[ClampUnit[Div(y, r)]]
              ELSE -PiS - Asin[ClampUnit[Div(y, r)]]
         ELSE IF y > 0 THEN Acos[ClampUnit[Div(x, r)]]
              ELSE -Acos[ClampUnit[Div(x, r)]]

\* Math.atan2(y, x): the angle of the point (x, y), in (-pi, pi]
Atan2[y \in Int, x \in Int] == Atan2At[y, x, Sqrt[Mul(x, x) + Mul(y, y)]]

\* Math2.radToDeg, the result in hundredths of a degree
RadToDeg[x \in Int] == RDiv(x * 18000, PiS)

\* Math2.degToRad of a whole number of degrees
DegToRad[d \in Int] == RDiv(d * PiS, 180)

(***************************************************************************)
(* three.js Vector3 and Quaternion, as the arm model uses them             *)
(***************************************************************************)
\* new Vector3(x, y, z)
Vec(x, y, z) == [x |-> x, y |-> y, z |-> z]

\* new Quaternion(x, y, z, w)
Quat(x, y, z, w) == [x |-> x, y |-> y, z |-> z, w |-> w]

\* the vectors and the quaternions
Vector3 == [x : Int, y : Int, z : Int]

Quaternion == [x : Int, y : Int, z : Int, w : Int]

\* new Quaternion(): the identity rotation
IdentityQ == Quat(0, 0, 0, S)

\* new Vector3(): the origin
ZeroV == Vec(0, 0, 0)

\* Vector3.add
VAdd[a \in Vector3, b \in Vector3] == Vec(a.x + b.x, a.y + b.y, a.z + b.z)

\* Vector3.multiplyScalar
VScale[a \in Vector3, k \in Int] == Vec(Mul(a.x, k), Mul(a.y, k), Mul(a.z, k))

\* Vector3.dot
VDot[a \in Vector3, b \in Vector3] == RDiv(a.x * b.x + a.y * b.y + a.z * b.z, S)

\* Vector3.length
VLength[a \in Vector3] == Sqrt[VDot[a, a]]

\* Quaternion.inverse: the conjugate (of a unit quaternion)
QInverse[q \in Quaternion] == Quat(-q.x, -q.y, -q.z, q.w)

\* Quaternion.multiply: a * b
QMultiply[a \in Quaternion, b \in Quaternion] ==
    Quat(RDiv(a.x * b.w + a.w * b.x + a.y * b.z - a.z * b.y, S),
         RDiv(a.y * b.w + a.w * b.y + a.z * b.x - a.x * b.z, S),
         RDiv(a.z * b.w + a.w * b.z + a.x * b.y - a.y * b.x, S),
         RDiv(a.w * b.w - a.x * b.x - a.y * b.y - a.z * b.z, S))

\* a quaternion divided by its length l
QDivide[q \in Quaternion, l \in Nat] ==
    IF l = 0 THEN IdentityQ
    ELSE Quat(Div(q.x, l), Div(q.y, l), Div(q.z, l), Div(q.w, l))

\* Quaternion.normalize
QNormalize[q \in Quaternion] ==
    QDivide[q, Sqrt[RDiv(q.x * q.x + q.y * q.y + q.z * q.z + q.w * q.w, S)]]

\* the second half of Vector3.applyQuaternion: i = q * v, then i * inverse(q)
ApplyInverse[i \in Quaternion, q \in Quaternion] ==
    Vec(RDiv(i.x * q.w - i.w * q.x - i.y * q.z + i.z * q.y, S),
        RDiv(i.y * q.w - i.w * q.y - i.z * q.x + i.x * q.z, S),
        RDiv(i.z * q.w - i.w * q.z - i.x * q.y + i.y * q.x, S))

\* Vector3.applyQuaternion: v rotated by q
ApplyQuaternion[v \in Vector3, q \in Quaternion] ==
    ApplyInverse[Quat(RDiv(q.w * v.x + q.y * v.z - q.z * v.y, S),
                      RDiv(q.w * v.y + q.z * v.x - q.x * v.z, S),
                      RDiv(q.w * v.z + q.x * v.y - q.y * v.x, S),
                      RDiv(-(q.x * v.x) - q.y * v.y - q.z * v.z, S)), q]

\* acos(clamp(dot / denominator, -1, 1)), denominator = sqrt(lengthSq * lengthSq')
AngleOver[dot \in Int, denominator \in Nat] ==
    IF denominator = 0 THEN HalfPiS ELSE Acos[ClampUnit[Div(dot, denominator)]]

\* Vector3.angleTo
AngleTo[a \in Vector3, b \in Vector3] ==
    AngleOver[VDot[a, b], ISqrt[VDot[a, a] * VDot[b, b]]]

\* Quaternion.setFromEuler for an Euler(x, y, 0, 'YXZ'): pitch x, yaw y
SetFromEulerYXZ[x \in Int, y \in Int] ==
    Quat(Mul(Sin[x \div 2], Cos[y \div 2]),
         Mul(Cos[x \div 2], Sin[y \div 2]),
         -Mul(Sin[x \div 2], Sin[y \div 2]),
         Mul(Cos[x \div 2], Cos[y \div 2]))

\* Euler.setFromRotationMatrix(m, 'YXZ'), of which the model needs x and y:
\* x = asin(-clamp(m23)), y = atan2(m13, m33), or atan2(-m31, m11) at the pole
EulerOfMatrix[m11 \in Int, m13 \in Int, m23 \in Int, m31 \in Int, m33 \in Int] ==
    [x |-> Asin[-ClampUnit[m23]],
     y |-> IF Abs(m23) < S THEN Atan2[m13, m33] ELSE Atan2[-m31, m11]]

\* Euler.setFromQuaternion(q, 'YXZ'): by way of the rotation matrix of q
EulerYXZ[q \in Quaternion] ==
    EulerOfMatrix[S - (Mul(q.y, 2 * q.y) + Mul(q.z, 2 * q.z)),
                  Mul(q.x, 2 * q.z) + Mul(q.w, 2 * q.y),
                  Mul(q.y, 2 * q.z) - Mul(q.w, 2 * q.x),
                  Mul(q.x, 2 * q.z) - Mul(q.w, 2 * q.y),
                  S - (Mul(q.x, 2 * q.x) + Mul(q.y, 2 * q.y))]

\* the four-component dot product slerp starts with
QDot[a \in Quaternion, b \in Quaternion] ==
    RDiv(a.w * b.w + a.x * b.x + a.y * b.y + a.z * b.z, S)

\* slerp's result: qa * ratioA + qc * ratioB
QMix[qa \in Quaternion, ratioA \in Int, qc \in Quaternion, ratioB \in Int] ==
    Quat(Mul(qa.x, ratioA) + Mul(qc.x, ratioB),
         Mul(qa.y, ratioA) + Mul(qc.y, ratioB),
         Mul(qa.z, ratioA) + Mul(qc.z, ratioB),
         Mul(qa.w, ratioA) + Mul(qc.w, ratioB))

\* slerp, the half angle known
SlerpByAngle[qa \in Quaternion, qc \in Quaternion, sinHalfTheta \in Int, halfTheta \in Int, t \in Int] ==
    QMix[qa, Div(Sin[Mul(S - t, halfTheta)], sinHalfTheta),
         qc, Div(Sin[Mul(t, halfTheta)], sinHalfTheta)]

\* slerp, sqrSinHalfTheta above Number.EPSILON
SlerpBySine[qa \in Quaternion, qc \in Quaternion, sinHalfTheta \in Int, cosHalfTheta \in Int, t \in Int] ==
    SlerpByAngle[qa, qc, sinHalfTheta, Atan2[sinHalfTheta, cosHalfTheta], t]

\* slerp toward qc, which is qb or -qb, at cosHalfTheta >= 0 from qa
SlerpToward[qa \in Quaternion, qc \in Quaternion, cosHalfTheta \in Int, t \in Int] ==
    IF cosHalfTheta >= S THEN qa
    ELSE IF S - Mul(cosHalfTheta, cosHalfTheta) <= 0
         THEN QNormalize[QMix[qa, S - t, qc, t]]
         ELSE SlerpBySine[qa, qc, Sqrt[S - Mul(cosHalfTheta, cosHalfTheta)],
                          cosHalfTheta, t]

\* Quaternion.slerp: qa.slerp(qb, t)
Slerp[qa \in Quaternion, qb \in Quaternion, t \in Int] ==
    IF t = 0 THEN qa
    ELSE IF t = S THEN qb
    ELSE SlerpToward[qa,
                     IF QDot[qa, qb] < 0 THEN Quat(-qb.x, -qb.y, -qb.z, -qb.w) ELSE qb,
                     Abs(QDot[qa, qb]), t]

(***************************************************************************)
(* Constants of the arm model                                              *)
(***************************************************************************)
HEAD_ELBOW_OFFSET == Vec(1550, -4650, -1500)

ELBOW_WRIST_OFFSET == Vec(0, 0, -2500)

WRIST_CONTROLLER_OFFSET == Vec(0, 0, 500)

ARM_EXTENSION_OFFSET == Vec(-800, 1400, 800)

\* 0.4
ELBOW_BEND_RATIO == 4000

\* 0.4
EXTENSION_RATIO_WEIGHT == 4000

\* 0.61 rad/s
MIN_ANGULAR_SPEED == 6100

\* the value null of the fields time and lastTime
Null == -1

(***************************************************************************)
(* Bounds and inputs                                                       *)
(***************************************************************************)
\* number of setter and update() calls in a run
MaxCalls == 4

\* performance.now() when the model is constructed, in ms
StartClock == 100

\* the clock advances by one of these between two calls of update(), in ms
Dts == {0, 16, 1000}

\* <<pitch, yaw>> in degrees of the orientations the caller passes
ControllerAngles == {<<0, 0>>, <<30, 0>>, <<60, 0>>, <<0, 90>>}

HeadAngles == {<<0, 0>>, <<20, 40>>}

\* the caller builds each orientation from an Euler(pitch, yaw, 0, 'YXZ')
OrientationOf(a) == SetFromEulerYXZ[DegToRad[a[1]], DegToRad[a[2]]]

ControllerInputs == {OrientationOf(a) : a \in ControllerAngles}

HeadInputs == {OrientationOf(a) : a \in HeadAngles}

HeadPositions == {Vec(0, 16000, 0), Vec(2000, 15000, -1000)}

(***************************************************************************)
(* State                                                                   *)
(***************************************************************************)
VARIABLES
    controllerQ,      \* this.controllerQ
    lastControllerQ,  \* this.lastControllerQ
    headQ,            \* this.headQ
    headPos,          \* this.headPos
    elbowPos,         \* this.elbowPos
    wristPos,         \* this.wristPos
    time,             \* this.time, ms, Null before the first update()
    lastTime,         \* this.lastTime, ms, Null before the first update()
    rootQ,            \* this.rootQ
    pose,             \* this.pose: [orientation, position]
    clock,            \* what performance.now() returns, ms
    upd,              \* the local variables of the most recent update()
    ret,              \* the value the most recent getter returned
    controllerArgs,   \* the arguments of setControllerOrientation so far
    calls,            \* number of setter and update() calls so far
    updatesInARow,    \* update() calls since the last setter call
    frame,            \* the frame under way: the fields at its start, the
                      \* setter calls made in it, and the frame before it
    simPc,            \* simulator: the statement render() executes next
    simFrames,        \* simulator: frames rendered so far
    controllerOrientation,  \* simulator: the caller's Quaternion object
    headOrientation,  \* simulator: the caller's Quaternion object
    simUpdated,       \* simulator: update() has run in the frame under way
    simUsed,          \* simulator: controllerQ at each update() so far
    simDrawn          \* simulator: what DaydreamSimulator.render read last

VARIABLES
    meshes,           \* PhysicsHandler.meshes
    bodies,           \* PhysicsHandler.bodies
    world,            \* PhysicsHandler.world: its bodies and its constraints
    pointerConstraint,  \* PhysicsHandler.pointerConstraint, Null or a constraint
    constrainedBody,  \* PhysicsHandler.constrainedBody
    jointBody,        \* where PhysicsHandler.jointBody is
    made,             \* PointToPointConstraint objects constructed so far
    synced,           \* the body each mesh took its position from in the
                      \* most recent updatePhysics()
    built,            \* the SceneManager has been constructed
    callbacks,        \* SceneManager: what its two loads have yet to do
    scene,            \* the objects SceneManager put into the Scene
    cube,             \* SceneManager.cube
    faceModels,       \* the names HumanFaceManager.faceModels has
    timers,           \* pending sayPhoneme timers: the position in the
                      \* chain of sayWelcome each belongs to
    said,             \* the heads the chain of sayWelcome under way has shown
    saidBefore        \* the heads the chain completed last showed

fields == <<controllerQ, lastControllerQ, headQ, headPos, elbowPos, wristPos,
            time, lastTime, rootQ, pose>>

armVars == <<controllerQ, lastControllerQ, headQ, headPos, elbowPos, wristPos,
             time, lastTime, rootQ, pose, clock, upd, ret, controllerArgs, calls,
             updatesInARow, frame, simPc, simFrames, controllerOrientation,
             headOrientation, simUpdated, simUsed, simDrawn>>

pointerVars == <<world, pointerConstraint, constrainedBody, jointBody, made>>

headVars == <<scene, cube, faceModels, timers, said, saidBefore>>

sceneVars == <<meshes, bodies, synced, built, callbacks, pointerVars, headVars>>

vars == <<armVars, sceneVars>>

simVars == <<simPc, simFrames, controllerOrientation, headOrientation,
             simUpdated, simUsed, simDrawn>>

\* no frame has been completed yet
NoFrame == [valid |-> FALSE]

\* the fields as a frame finds them
StartOfFrame ==
    [controllerQ |-> controllerQ, lastControllerQ |-> lastControllerQ,
     headQ |-> headQ, headPos |-> headPos, elbowPos |-> elbowPos,
     wristPos |-> wristPos, time |-> time, lastTime |-> lastTime,
     rootQ |-> rootQ, pose |-> pose]

\* no update() has run yet
NoUpdate == [valid |-> FALSE]

\* no getter has returned yet
NoReturn == [of |-> "none"]

\* cube before addFace assigns it
Undefined == "undefined"

\* OrientationArmModel.constructor, PhysicsHandler.constructor
Init ==
    /\ controllerQ = IdentityQ
    /\ lastControllerQ = IdentityQ
    /\ headQ = IdentityQ
    /\ headPos = ZeroV
    /\ elbowPos = ZeroV
    /\ wristPos = ZeroV
    /\ time = Null
    /\ lastTime = Null
    /\ rootQ = IdentityQ
    /\ pose = [orientation |-> IdentityQ, position |-> ZeroV]
    /\ clock = StartClock
    /\ upd = NoUpdate
    /\ ret = NoReturn
    /\ controllerArgs = <<>>
    /\ calls = 0
    /\ updatesInARow = 0
    /\ frame = [n |-> 0, start |-> StartOfFrame, log |-> <<>>, last |-> NoFrame]
    /\ simPc = "sample"
    /\ simFrames = 0
    /\ controllerOrientation = IdentityQ
    /\ headOrientation = IdentityQ
    /\ simUpdated = FALSE
    /\ simUsed = <<>>
    /\ simDrawn = NoReturn
    /\ meshes = <<>>
    /\ bodies = <<>>
    /\ world = [bodies |-> <<"jointBody">>, constraints |-> <<>>]
    /\ pointerConstraint = Null
    /\ constrainedBody = Undefined
    /\ jointBody = 0
    /\ made = 0
    /\ synced = <<>>
    /\ built = FALSE
    /\ callbacks = {}
    /\ scene = {}
    /\ cube = Undefined
    /\ faceModels = {}
    /\ timers = <<>>
    /\ said = <<>>
    /\ saidBefore = <<>>

(***************************************************************************)
(* Setters                                                                 *)
(***************************************************************************)
\* setControllerOrientation with its two copies in the other order:
\* lastControllerQ gets the new orientation, not the previous one
SetControllerOrientationSwapped(quaternion) ==
    /\ controllerQ' = quaternion
    /\ lastControllerQ' = quaternion
    /\ UNCHANGED <<headQ, headPos, elbowPos, wristPos, time, lastTime, rootQ, pose>>

\* the argument kept by reference instead of copied: from the second frame
\* on this.controllerQ is the caller's object, which already holds the new
\* value when it is copied into lastControllerQ
SetControllerOrientationByReference(quaternion) ==
    /\ lastControllerQ' = (IF upd.valid THEN quaternion ELSE controllerQ)
    /\ controllerQ' = quaternion
    /\ UNCHANGED <<headQ, headPos, elbowPos, wristPos, time, lastTime, rootQ, pose>>

\* setControllerOrientation(quaternion)
SetControllerOrientation(quaternion) ==
    /\ lastControllerQ' = controllerQ
    /\ controllerQ' = quaternion
    /\ UNCHANGED <<headQ, headPos, elbowPos, wristPos, time, lastTime, rootQ, pose>>

\* the body of setControllerOrientation pasted in and half adapted: the
\* controller history is shifted as well
SetHeadOrientationShifting(quaternion) ==
    /\ headQ' = quaternion
    /\ lastControllerQ' = controllerQ
    /\ UNCHANGED <<controllerQ, headPos, elbowPos, wristPos, time, lastTime, rootQ, pose>>

\* setHeadOrientation(quaternion)
SetHeadOrientation(quaternion) ==
    /\ headQ' = quaternion
    /\ UNCHANGED <<controllerQ, lastControllerQ, headPos, elbowPos, wristPos,
                   time, lastTime, rootQ, pose>>

\* setHeadPosition(position)
SetHeadPosition(position) ==
    /\ headPos' = position
    /\ UNCHANGED <<controllerQ, lastControllerQ, headQ, elbowPos, wristPos,
                   time, lastTime, rootQ, pose>>

(***************************************************************************)
(* update() and its helpers                                                *)
(***************************************************************************)
\* getHeadYawOrientation_: the yaw of headQ alone
getHeadYawOrientation_(hq) == SetFromEulerYXZ[0, EulerYXZ[hq].y]

\* the upper limit forgotten: Math.max(value, min)
clamp_Lower(value, min, max) == Max(value, min)

\* clamp_(value, min, max)
clamp_(value, min, max) == Min(Max(value, min), max)

\* quatAngle_(q1, q2): the angle between the two images of (0, 0, -1)
quatAngle_(q1, q2) ==
    AngleTo[ApplyQuaternion[Vec(0, 0, -S), q1], ApplyQuaternion[Vec(0, 0, -S), q2]]

\* lastTime never subtracted: the time since the page loaded
TimeDeltaSinceLoad(t, lt) == t

\* this.time - this.lastTime, in ms: null counts as 0 in the subtraction
TimeDelta(t, lt) == t - (IF lt = Null THEN 0 ELSE lt)

\* the division by 1000 of line 270 forgotten: radians per millisecond
ControllerAngularSpeedPerMs(angleDelta, ms) ==
    IF ms = 0
    THEN [nan |-> angleDelta = 0, inf |-> angleDelta # 0, val |-> 0]
    ELSE [nan |-> FALSE, inf |-> FALSE, val |-> RDiv(angleDelta, ms)]

\* angleDelta / timeDelta, timeDelta being ms / 1000: a number, Infinity or NaN
ControllerAngularSpeed(angleDelta, ms) ==
    IF ms = 0
    THEN [nan |-> angleDelta = 0, inf |-> angleDelta # 0, val |-> 0]
    ELSE [nan |-> FALSE, inf |-> FALSE, val |-> RDiv(angleDelta * 1000, ms)]

\* the comparison reversed: controllerAngularSpeed < MIN_ANGULAR_SPEED
AboveMinSpeedReversed(speed) ==
    /\ ~speed.nan
    /\ ~speed.inf
    /\ speed.val < MIN_ANGULAR_SPEED

\* controllerAngularSpeed > MIN_ANGULAR_SPEED
AboveMinSpeed(speed) ==
    /\ ~speed.nan
    /\ speed.inf \/ speed.val > MIN_ANGULAR_SPEED

\* rootQ left as it was when the speed is Infinity or NaN
RootRotationOfFinite(rq, headYawQ, angleDelta, speed) ==
    IF speed.nan \/ speed.inf THEN rq
    ELSE IF AboveMinSpeed(speed) THEN Slerp[rq, headYawQ, RDiv(angleDelta, 10)]
    ELSE headYawQ

\* the new rootQ: a partial step toward headYawQ, or headYawQ itself
RootRotation(rq, headYawQ, angleDelta, speed) ==
    IF AboveMinSpeed(speed) THEN Slerp[rq, headYawQ, RDiv(angleDelta, 10)]
    ELSE headYawQ

\* the pitch of the controller, in hundredths of a degree
ControllerXDeg(cq) == RadToDeg[EulerYXZ[cq].x]

\* extensionRatio
ExtensionRatio(xDeg) == clamp_(RDiv((xDeg - 1100) * S, 5000 - 1100), 0, S)

\* controllerCameraQ: rootQ.clone().inverse() multiplied by controllerQ
ControllerCameraQ(rq, cq) == QMultiply[QInverse[rq], cq]

\* the extension offset left out of elbowPos
ElbowPositionUnextended(hp, extensionRatio) == VAdd[hp, HEAD_ELBOW_OFFSET]

\* elbowPos
ElbowPosition(hp, extensionRatio) ==
    VAdd[VAdd[hp, HEAD_ELBOW_OFFSET], VScale[ARM_EXTENSION_OFFSET, extensionRatio]]

\* (totalAngleDeg / 180) ^ 4, given (totalAngleDeg / 180) ^ 2
Pow4[r2 \in Int] == Mul(r2, r2)

\* the ratio squared instead of raised to the fourth power
LerpSuppressionSquared(totalAngleDeg) ==
    S - Mul(RDiv(totalAngleDeg * S, 18000), RDiv(totalAngleDeg * S, 18000))

\* lerpSuppression = 1 - (totalAngleDeg / 180) ^ 4
LerpSuppression(totalAngleDeg) ==
    S - Pow4[Mul(RDiv(totalAngleDeg * S, 18000), RDiv(totalAngleDeg * S, 18000))]

\* lerpValue
LerpValue(lerpSuppression, extensionRatio) ==
    Mul(lerpSuppression,
        ELBOW_BEND_RATIO
          + Mul(Mul(S - ELBOW_BEND_RATIO, extensionRatio), EXTENSION_RATIO_WEIGHT))

\* the three quaternions of lines 310-312, given the slerp of line 310.
\* Quaternion.inverse() conjugates the quaternion it is called on and
\* returns that same object, so after line 311 wristQ and invWristQ are one
\* object, holding the inverse of the slerp of line 310.
JointsOf[slerped \in Quaternion, controllerCameraQ \in Quaternion] ==
    [slerped |-> slerped,
     wristQ |-> QInverse[slerped],
     invWristQ |-> QInverse[slerped],
     elbowQ |-> QMultiply[controllerCameraQ, QInverse[slerped]]]

\* lines 310-312
JointRotations(controllerCameraQ, lerpValue) ==
    JointsOf[Slerp[IdentityQ, controllerCameraQ, lerpValue], controllerCameraQ]

\* wristPos: the offsets chained through the joint rotations
WristPosition(wristQ, elbowQ, ep) ==
    VAdd[ApplyQuaternion[VAdd[ApplyQuaternion[WRIST_CONTROLLER_OFFSET, wristQ],
                              ELBOW_WRIST_OFFSET],
                         elbowQ],
         ep]

\* the pose position
PosePosition(wp, extensionRatio, rq) ==
    ApplyQuaternion[VAdd[wp, VScale[ARM_EXTENSION_OFFSET, extensionRatio]], rq]

\* the orientation copied from the wrong field, lastControllerQ
PoseOrientationOfLast(cq) == lastControllerQ

\* the pose orientation: a copy of controllerQ
PoseOrientation(cq) == cq

\* update() line by line; each step adds its local variables to the record l
\* of those computed so far.  Lines 264-271, 283-284, 338.
UpdateStart(now) ==
    [valid |-> TRUE,
     time |-> now,
     rootBefore |-> rootQ,
     lastTimeBefore |-> lastTime,
     headYawQ |-> getHeadYawOrientation_(headQ),
     timeDelta |-> TimeDelta(now, lastTime),
     angleDelta |-> quatAngle_(lastControllerQ, controllerQ),
     controllerXDeg |-> ControllerXDeg(controllerQ),
     orientation |-> PoseOrientation(controllerQ)]

\* lines 272, 285
UpdateSpeed(l) ==
    l @@ [controllerAngularSpeed |-> ControllerAngularSpeed(l.angleDelta, l.timeDelta),
          extensionRatio |-> ExtensionRatio(l.controllerXDeg)]

\* lines 273-278, 292-296
UpdateRoot(l) ==
    l @@ [rootQ |-> RootRotation(l.rootBefore, l.headYawQ, l.angleDelta,
                                 l.controllerAngularSpeed),
          elbowPos |-> ElbowPosition(headPos, l.extensionRatio)]

\* lines 288-289
UpdateCamera(l) ==
    l @@ [controllerCameraQ |-> ControllerCameraQ(l.rootQ, controllerQ)]

\* lines 301-302
UpdateTotalAngle(l) ==
    l @@ [totalAngle |-> quatAngle_(l.controllerCameraQ, IdentityQ)]

\* lines 302-303
UpdateSuppression(l) ==
    l @@ [totalAngleDeg |-> RadToDeg[l.totalAngle],
          lerpSuppression |-> LerpSuppression(RadToDeg[l.totalAngle])]

\* lines 305-308
UpdateLerp(l) ==
    l @@ [lerpValue |-> LerpValue(l.lerpSuppression, l.extensionRatio)]

\* lines 310-312
UpdateJoints(l) == l @@ JointRotations(l.controllerCameraQ, l.lerpValue)

\* lines 324-329
UpdateWrist(l) == l @@ [wristPos |-> WristPosition(l.wristQ, l.elbowQ, l.elbowPos)]

\* lines 331-336
UpdatePosition(l) ==
    l @@ [position |-> PosePosition(l.wristPos, l.extensionRatio, l.rootQ)]

\* the local variables of update() up to the new rootQ
UpdateLocalsToRoot(now) ==
    The({UpdateRoot(l2) : l2 \in {UpdateSpeed(l1) : l1 \in {UpdateStart(now)}}})

\* ... up to lerpValue
UpdateLocalsToLerp(now) ==
    The({UpdateLerp(l5) : l5 \in {UpdateSuppression(l4) : l4 \in
        {UpdateTotalAngle(l3) : l3 \in {UpdateCamera(l2) : l2 \in
            {UpdateLocalsToRoot(now)}}}}})

\* the local variables of update() when performance.now() returns now
UpdateLocals(now) ==
    The({UpdatePosition(l3) : l3 \in {UpdateWrist(l2) : l2 \in
        {UpdateJoints(l1) : l1 \in {UpdateLocalsToLerp(now)}}}})

\* update(), performance.now() returning now
Update(now) ==
    \E l \in {UpdateLocals(now)} :
        /\ upd' = l
        /\ time' = l.time
        /\ rootQ' = l.rootQ
        /\ elbowPos' = l.elbowPos
        /\ wristPos' = l.wristPos
        /\ pose' = [orientation |-> l.orientation, position |-> l.position]
        /\ lastTime' = l.time
        /\ UNCHANGED <<controllerQ, lastControllerQ, headQ, headPos>>

(***************************************************************************)
(* Getters                                                                 *)
(***************************************************************************)
\* getPose()
GetPose ==
    /\ ret' = [of |-> "getPose", value |-> pose]
    /\ UNCHANGED fields

\* getForearmLength()
GetForearmLength ==
    /\ ret' = [of |-> "getForearmLength", value |-> VLength[ELBOW_WRIST_OFFSET]]
    /\ UNCHANGED fields

\* the clone forgotten: this.elbowPos itself is rotated and returned
GetElbowPositionInPlace ==
    /\ ret' = [of |-> "getElbowPosition", value |-> ApplyQuaternion[elbowPos, rootQ]]
    /\ elbowPos' = ApplyQuaternion[elbowPos, rootQ]
    /\ UNCHANGED <<controllerQ, lastControllerQ, headQ, headPos, wristPos, time,
                   lastTime, rootQ, pose>>

\* getElbowPosition(): a clone of elbowPos, rotated by rootQ
GetElbowPosition ==
    /\ ret' = [of |-> "getElbowPosition", value |-> ApplyQuaternion[elbowPos, rootQ]]
    /\ UNCHANGED fields

\* getWristPosition(): a clone of wristPos, rotated by rootQ
GetWristPosition ==
    /\ ret' = [of |-> "getWristPosition", value |-> ApplyQuaternion[wristPos, rootQ]]
    /\ UNCHANGED fields

(***************************************************************************)
(* The calls a user of the model makes, in any order                       *)
(***************************************************************************)
CallSetControllerOrientation ==
    /\ calls < MaxCalls
    /\ \E q \in ControllerInputs :
          /\ SetControllerOrientation(q)
          /\ controllerArgs' = Append(controllerArgs, q)
    /\ calls' = calls + 1
    /\ updatesInARow' = 0
    /\ ret' = NoReturn
    /\ UNCHANGED <<clock, upd, frame>>
    /\ UNCHANGED <<simVars, sceneVars>>

CallSetHeadOrientation ==
    /\ calls < MaxCalls
    /\ \E q \in HeadInputs : SetHeadOrientation(q)
    /\ calls' = calls + 1
    /\ updatesInARow' = 0
    /\ ret' = NoReturn
    /\ UNCHANGED <<clock, upd, controllerArgs, frame>>
    /\ UNCHANGED <<simVars, sceneVars>>

CallSetHeadPosition ==
    /\ calls < MaxCalls
    /\ \E p \in HeadPositions : SetHeadPosition(p)
    /\ calls' = calls + 1
    /\ updatesInARow' = 0
    /\ ret' = NoReturn
    /\ UNCHANGED <<clock, upd, controllerArgs, frame>>
    /\ UNCHANGED <<simVars, sceneVars>>

CallUpdate ==
    /\ calls < MaxCalls
    /\ \E dt \in Dts :
          /\ clock' = clock + dt
          /\ Update(clock + dt)
    /\ calls' = calls + 1
    /\ updatesInARow' = updatesInARow + 1
    /\ ret' = NoReturn
    /\ UNCHANGED <<controllerArgs, frame>>
    /\ UNCHANGED <<simVars, sceneVars>>

CallGetter ==
    /\ GetPose \/ GetForearmLength \/ GetElbowPosition \/ GetWristPosition
    /\ UNCHANGED <<clock, upd, controllerArgs, calls, updatesInARow, frame>>
    /\ UNCHANGED <<simVars, sceneVars>>

Next ==
    \/ CallSetControllerOrientation
    \/ CallSetHeadOrientation
    \/ CallSetHeadPosition
    \/ CallUpdate
    \/ CallGetter

Spec == Init /\ [][Next]_vars

(***************************************************************************)
(* Frames: the three setters, each once in any order, then update()        *)
(***************************************************************************)
MaxFrames == 2

\* what performance.now() advances by from one frame to the next, ms
FrameDts == {16}

\* the setters called so far in the frame
FrameCalled == {frame.log[i].call : i \in 1..Len(frame.log)}

\* the argument the frame passed to a setter
FrameArg(call) == The({frame.log[i].arg : i \in {j \in 1..Len(frame.log) : frame.log[j].call = call}})

\* a setter call is noted in the frame
FrameNotes(call, arg) ==
    /\ frame.n < MaxFrames
    /\ call \notin FrameCalled
    /\ frame' = [frame EXCEPT !.log = Append(@, [call |-> call, arg |-> arg])]
    /\ updatesInARow' = 0
    /\ ret' = NoReturn
    /\ UNCHANGED <<clock, upd, controllerArgs, calls>>
    /\ UNCHANGED <<simVars, sceneVars>>

FrameSetControllerOrientation ==
    \E q \in ControllerInputs :
        SetControllerOrientation(q) /\ FrameNotes("setControllerOrientation", q)

FrameSetHeadOrientation ==
    \E q \in HeadInputs :
        SetHeadOrientation(q) /\ FrameNotes("setHeadOrientation", q)

FrameSetHeadPosition ==
    \E p \in HeadPositions :
        SetHeadPosition(p) /\ FrameNotes("setHeadPosition", p)

\* update() ends the frame, once all three setters were called
FrameUpdate ==
    /\ frame.n < MaxFrames
    /\ Len(frame.log) = 3
    /\ \E dt \in FrameDts :
          /\ clock' = clock + dt
          /\ Update(clock + dt)
    /\ frame' = [n |-> frame.n + 1,
                 start |-> StartOfFrame',
                 log |-> <<>>,
                 last |-> [valid |-> TRUE,
                           start |-> frame.start,
                           controllerQ |-> FrameArg("setControllerOrientation"),
                           headQ |-> FrameArg("setHeadOrientation"),
                           headPos |-> FrameArg("setHeadPosition"),
                           now |-> clock']]
    /\ updatesInARow' = updatesInARow + 1
    /\ ret' = NoReturn
    /\ UNCHANGED <<controllerArgs, calls>>
    /\ UNCHANGED <<simVars, sceneVars>>

FrameNext ==
    \/ FrameSetControllerOrientation
    \/ FrameSetHeadOrientation
    \/ FrameSetHeadPosition
    \/ FrameUpdate

SpecFrame == Init /\ [][FrameNext]_vars

(***************************************************************************)
(* The simulator's frame loop                                              *)
(***************************************************************************)
MaxSimFrames == 3

\* const headPosition = new Vector3(0, 1.6, 0)
headPosition == Vec(0, 16000, 0)

\* what a statement of render() leaves alone besides the arm model
SimKeeps == UNCHANGED <<controllerArgs, calls, frame, simFrames, sceneVars>>

\* controllerOrientation.setFromEuler, headOrientation.setFromEuler: the
\* caller's two objects take the values the GUI's sliders give
SimSample ==
    /\ simPc = "sample"
    /\ simFrames < MaxSimFrames
    /\ \E c \in ControllerAngles : controllerOrientation' = OrientationOf(c)
    /\ \E h \in HeadAngles : headOrientation' = OrientationOf(h)
    /\ simPc' = "setControllerOrientation"
    /\ simUpdated' = FALSE
    /\ SimKeeps
    /\ UNCHANGED <<fields, clock, upd, ret, updatesInARow, simUsed, simDrawn>>

\* model.setControllerOrientation(controllerOrientation)
SimSetControllerOrientation ==
    /\ simPc = "setControllerOrientation"
    /\ SetControllerOrientation(controllerOrientation)
    /\ simPc' = "setHeadOrientation"
    /\ updatesInARow' = 0
    /\ SimKeeps
    /\ UNCHANGED <<clock, upd, ret, controllerOrientation, headOrientation,
                   simUpdated, simUsed, simDrawn>>

\* model.setHeadOrientation(headOrientation)
SimSetHeadOrientation ==
    /\ simPc = "setHeadOrientation"
    /\ SetHeadOrientation(headOrientation)
    /\ simPc' = "setHeadPosition"
    /\ updatesInARow' = 0
    /\ SimKeeps
    /\ UNCHANGED <<clock, upd, ret, controllerOrientation, headOrientation,
                   simUpdated, simUsed, simDrawn>>

\* model.setHeadPosition(headPosition)
SimSetHeadPosition ==
    /\ simPc = "setHeadPosition"
    /\ SetHeadPosition(headPosition)
    /\ simPc' = "update"
    /\ updatesInARow' = 0
    /\ SimKeeps
    /\ UNCHANGED <<clock, upd, ret, controllerOrientation, headOrientation,
                   simUpdated, simUsed, simDrawn>>

\* model.update()
SimUpdate ==
    /\ simPc = "update"
    /\ \E dt \in FrameDts :
          /\ clock' = clock + dt
          /\ Update(clock + dt)
    /\ simPc' = "render"
    /\ updatesInARow' = updatesInARow + 1
    /\ simUpdated' = TRUE
    /\ simUsed' = Append(simUsed, controllerQ)
    /\ SimKeeps
    /\ UNCHANGED <<ret, controllerOrientation, headOrientation, simDrawn>>

\* simulator.render(): DaydreamSimulator.render reads the pose, the wrist
\* and elbow positions, the forearm length and rootQ
SimRender ==
    /\ simPc = "render"
    /\ GetPose
    /\ simDrawn' = [of |-> "render",
                    afterUpdate |-> simUpdated,
                    pose |-> pose,
                    wristPos |-> ApplyQuaternion[wristPos, rootQ],
                    elbowPos |-> ApplyQuaternion[elbowPos, rootQ],
                    forearmLength |-> VLength[ELBOW_WRIST_OFFSET],
                    root |-> rootQ]
    /\ simPc' = "requestAnimationFrame"
    /\ SimKeeps
    /\ UNCHANGED <<clock, upd, updatesInARow, controllerOrientation,
                   headOrientation, simUpdated, simUsed>>

\* requestAnimationFrame(render): the next frame will run render() again
SimRequestAnimationFrame ==
    /\ simPc = "requestAnimationFrame"
    /\ simPc' = "sample"
    /\ simFrames' = simFrames + 1
    /\ UNCHANGED <<fields, clock, upd, ret, updatesInARow, controllerArgs, calls,
                   frame, controllerOrientation, headOrientation, simUpdated,
                   simUsed, simDrawn, sceneVars>>

SimNext ==
    \/ SimSample
    \/ SimSetControllerOrientation
    \/ SimSetHeadOrientation
    \/ SimSetHeadPosition
    \/ SimUpdate
    \/ SimRender
    \/ SimRequestAnimationFrame

SpecSim == Init /\ [][SimNext]_vars

(***************************************************************************)
(* PhysicsHandler and SceneManager                                         *)
(***************************************************************************)
MaxConstraints == 3

\* the points the joint body is put at, by number; 0 is the origin
Points == {0, 1}

\* sayWelcome: the phonemes of its chain, in the order of the chain
WelcomePhonemes == <<"W", "eh", "K", "aah", "B,M,P", "D,S,T", "ooh,Q", "W", "eh", "B,M,P", "eh", "K", "D,S,T", "aah", "F,V", "i", "D,S,T", "i", "K", "D,S,T">>

Phonemes == {WelcomePhonemes[i] : i \in 1..Len(WelcomePhonemes)}

\* 'Phoneme' + phoneme
PhonemeModel(phoneme) == CASE phoneme = "W" -> "PhonemeW" [] phoneme = "eh" -> "Phonemeeh" [] phoneme = "K" -> "PhonemeK" [] phoneme = "aah" -> "Phonemeaah" [] phoneme = "B,M,P" -> "PhonemeB,M,P" [] phoneme = "D,S,T" -> "PhonemeD,S,T" [] phoneme = "ooh,Q" -> "Phonemeooh,Q" [] phoneme = "F,V" -> "PhonemeF,V" [] phoneme = "i" -> "Phonemei"

\* the face models a load can end with: 'main', which addFace shows, and
\* the models of none, some or all of the phonemes
LoadedChoices == {{"main"} \cup {PhonemeModel(p) : p \in ps} : ps \in {{}, {"W", "eh", "D,S,T"}, Phonemes}}

\* the meshes a pointer can be put on; leftArm is in the scene but is never
\* registered with the PhysicsHandler
PointedMeshes == {"lowerLeftLegMesh", "main", "PhonemeW", "rightArm", "leftArm"}

\* shape2mesh: the Object3D made for a body of the ragdoll
shape2mesh(body) == IF body = "lowerLeftLeg" THEN "lowerLeftLegMesh" ELSE "lowerRightLegMesh"

\* PhysicsHandler.addMesh
addMesh(ms, mesh) == Append(ms, mesh)

\* PhysicsHandler.addBody: this.bodies.push(body), and world.addBody(body)
addBody(bs, body) == Append(bs, body)

\* addVisual taking the branch that logs 'No mesh!'
addVisualNoMesh(ms, body) == ms

\* SceneManager.addVisual: a Body always gets a mesh from shape2mesh
addVisual(ms, body) == addMesh(ms, shape2mesh(body))

\* replaceMesh registering the new mesh at the end and keeping the old one
replaceMeshAppending(ms, oldMesh, newMesh) == Append(ms, newMesh)

\* PhysicsHandler.replaceMesh
replaceMesh(ms, oldMesh, newMesh) == [i \in 1..Len(ms) |-> IF ms[i] = oldMesh THEN newMesh ELSE ms[i]]

\* Array.prototype.indexOf, counting from 0, -1 when absent
indexOf(ms, mesh) == IF \E i \in 1..Len(ms) : ms[i] = mesh THEN The({i \in 1..Len(ms) : ms[i] = mesh /\ \A j \in 1..(i - 1) : ms[j] # mesh}) - 1 ELSE -1

\* World.removeConstraint: splices the constraint out if it is there
removeConstraint(cs, c) == SelectSeq(cs, LAMBDA x : x # c)

\* the part of the state replaceHead works on, and the replacements made
\* in the task under way
TheHead == [scene |-> scene, meshes |-> meshes, cube |-> cube, replaced |-> <<>>]

\* SceneManager.replaceHead; with no cube yet, reading this.cube.position
\* throws before anything has changed
replaceHead(h, faceModelName) == IF h.cube = Undefined THEN h ELSE [scene |-> (h.scene \ {h.cube}) \cup {faceModelName}, meshes |-> replaceMesh(h.meshes, h.cube, faceModelName), cube |-> faceModelName, replaced |-> Append(h.replaced, faceModelName)]

\* the callback of the timer of sayPhoneme without its faceModels.has test
sayPhonemeTimeoutUnchecked(h, phoneme) == replaceHead(h, PhonemeModel(phoneme))

\* the callback of the timer of sayPhoneme
sayPhonemeTimeout(h, phoneme) == IF PhonemeModel(phoneme) \in faceModels THEN replaceHead(h, PhonemeModel(phoneme)) ELSE h

\* sayPhoneme: a timer is set for the step of the chain
sayPhoneme(ts, step) == Append(ts, step)

\* PhysicsHandler.updatePhysics: the body each mesh takes its position and
\* quaternion from; reading bodies[i].position of a missing body throws
updatePhysics(ms, bs) == [i \in 1..Len(ms) |-> IF i <= Len(bs) THEN bs[i] ELSE "TypeError"]

\* SceneManager.constructor: build() adds the light and createRagdoll() the
\* two lower legs; the two loads are started
NewSceneManager ==
    /\ ~built
    /\ built' = TRUE
    /\ bodies' = addBody(addBody(bodies, "lowerLeftLeg"), "lowerRightLeg")
    /\ world' = [world EXCEPT !.bodies = addBody(addBody(@, "lowerLeftLeg"), "lowerRightLeg")]
    /\ meshes' = addVisual(addVisual(meshes, "lowerLeftLeg"), "lowerRightLeg")
    /\ scene' = scene \cup {"light", shape2mesh("lowerLeftLeg"), shape2mesh("lowerRightLeg")}
    /\ callbacks' = {"loadFaceModels", "addArm"}
    /\ UNCHANGED <<synced, pointerConstraint, constrainedBody, jointBody, made>>
    /\ UNCHANGED <<cube, faceModels, timers, said, saidBefore>>
    /\ UNCHANGED armVars

\* humanFaceManager.loadFaceModels() completes
LoadFaceModels ==
    /\ "loadFaceModels" \in callbacks
    /\ \E models \in LoadedChoices : faceModels' = models
    /\ callbacks' = (callbacks \ {"loadFaceModels"}) \cup {"addFace"}
    /\ UNCHANGED <<meshes, bodies, synced, built, pointerVars>>
    /\ UNCHANGED <<scene, cube, timers, said, saidBefore>>
    /\ UNCHANGED armVars

\* SceneManager.addFace
AddFace ==
    /\ "addFace" \in callbacks
    /\ callbacks' = callbacks \ {"addFace"}
    /\ scene' = scene \cup {"main", "faceBox"}
    /\ cube' = "main"
    /\ meshes' = addMesh(meshes, "main")
    /\ bodies' = addBody(bodies, "faceBody")
    /\ world' = [world EXCEPT !.bodies = addBody(@, "faceBody")]
    /\ timers' = sayPhoneme(timers, 1)
    /\ UNCHANGED <<synced, built, pointerConstraint, constrainedBody, jointBody, made>>
    /\ UNCHANGED <<faceModels, said, saidBefore>>
    /\ UNCHANGED armVars

\* SceneManager.addArm
AddArm ==
    /\ "addArm" \in callbacks
    /\ callbacks' = callbacks \ {"addArm"}
    /\ scene' = scene \cup {"rightArm", "leftArm", "armCylinder"}
    /\ meshes' = addMesh(meshes, "rightArm")
    /\ bodies' = addBody(bodies, "armBody")
    /\ world' = [world EXCEPT !.bodies = addBody(@, "armBody")]
    /\ UNCHANGED <<synced, built, pointerConstraint, constrainedBody, jointBody, made>>
    /\ UNCHANGED <<cube, faceModels, timers, said, saidBefore>>
    /\ UNCHANGED armVars

\* the state takes the head h
ShowHead(h) ==
    /\ scene' = h.scene
    /\ meshes' = h.meshes
    /\ cube' = h.cube

\* SceneManager.replaceHead called with the name of a loaded model
ReplaceHead(faceModelName) ==
    /\ faceModelName \in faceModels
    /\ ShowHead(replaceHead(TheHead, faceModelName))
    /\ UNCHANGED <<bodies, synced, built, callbacks, pointerVars>>
    /\ UNCHANGED <<faceModels, timers, said, saidBefore>>
    /\ UNCHANGED armVars

CallReplaceHead == \E faceModelName \in faceModels : ReplaceHead(faceModelName)

\* a timer of sayPhoneme fires: its callback runs and resolves the promise,
\* and the next then() of sayWelcome runs; after the last phoneme that is
\* replaceHead('main') and then sayWelcome() again
TimerFires ==
    /\ timers # <<>>
    /\ LET step == Head(timers)
           h == sayPhonemeTimeout(TheHead, WelcomePhonemes[step])
       IN  IF step < Len(WelcomePhonemes)
           THEN /\ ShowHead(h)
                /\ timers' = sayPhoneme(Tail(timers), step + 1)
                /\ said' = said \o h.replaced
                /\ UNCHANGED saidBefore
           ELSE /\ ShowHead(replaceHead(h, "main"))
                /\ timers' = sayPhoneme(Tail(timers), 1)
                /\ said' = <<>>
                /\ saidBefore' = said \o replaceHead(h, "main").replaced
    /\ UNCHANGED <<bodies, synced, built, callbacks, pointerVars, faceModels>>
    /\ UNCHANGED armVars

\* PhysicsHandler.updatePhysics
UpdatePhysics ==
    /\ synced' = updatePhysics(meshes, bodies)
    /\ UNCHANGED <<meshes, bodies, built, callbacks, pointerVars, headVars>>
    /\ UNCHANGED armVars

SceneNext ==
    \/ NewSceneManager
    \/ LoadFaceModels
    \/ AddFace
    \/ AddArm
    \/ CallReplaceHead
    \/ TimerFires
    \/ UpdatePhysics

SpecScene == Init /\ [][SceneNext]_vars

\* the browser fires every timer that is set
SpecWelcome == Init /\ [][SceneNext]_vars /\ WF_vars(TimerFires)

\* PhysicsHandler.addPointerConstraintToBody
AddPointerConstraintToBody(point, body) ==
    /\ made < MaxConstraints
    /\ constrainedBody' = body
    /\ jointBody' = point
    /\ made' = made + 1
    /\ pointerConstraint' = made + 1
    /\ world' = [world EXCEPT !.constraints = Append(@, made + 1)]
    /\ UNCHANGED <<meshes, bodies, synced, built, callbacks, headVars>>
    /\ UNCHANGED armVars

\* PhysicsHandler.addPointerConstraintToMesh
AddPointerConstraintToMesh(point, mesh) ==
    LET idx == indexOf(meshes, mesh)
    IN  IF idx # -1
        THEN AddPointerConstraintToBody(point, bodies[idx + 1])
        ELSE UNCHANGED vars

\* PhysicsHandler.removeJointConstraint
RemoveJointConstraint ==
    /\ world' = [world EXCEPT !.constraints = removeConstraint(@, pointerConstraint)]
    /\ pointerConstraint' = Null
    /\ UNCHANGED <<constrainedBody, jointBody, made>>
    /\ UNCHANGED <<meshes, bodies, synced, built, callbacks, headVars>>
    /\ UNCHANGED armVars

\* PhysicsHandler.moveJointToPoint; with no pointer constraint the call
\* throws at pointerConstraint.update(), after the joint body has moved
MoveJointToPoint(point) ==
    /\ jointBody' = point
    /\ UNCHANGED <<world, pointerConstraint, constrainedBody, made>>
    /\ UNCHANGED <<meshes, bodies, synced, built, callbacks, headVars>>
    /\ UNCHANGED armVars

CallAddPointerConstraintToBody == \E point \in Points : \E i \in 1..Len(bodies) : AddPointerConstraintToBody(point, bodies[i])

CallAddPointerConstraintToMesh == \E point \in Points : \E mesh \in PointedMeshes : AddPointerConstraintToMesh(point, mesh)

CallMoveJointToPoint == \E point \in Points : MoveJointToPoint(point)

PointerNext ==
    \/ NewSceneManager
    \/ LoadFaceModels
    \/ AddFace
    \/ AddArm
    \/ CallAddPointerConstraintToBody
    \/ CallAddPointerConstraintToMesh
    \/ RemoveJointConstraint
    \/ CallMoveJointToPoint

SpecPointer == Init /\ [][PointerNext]_vars

(***************************************************************************)
(* Properties                                                              *)
(***************************************************************************)
\* the most recent argument of setControllerOrientation, identity if none
LatestControllerArg ==
    IF Len(controllerArgs) >= 1 THEN controllerArgs[Len(controllerArgs)]
    ELSE IdentityQ

\* the one before it, identity before two calls were made
PreviousControllerArg ==
    IF Len(controllerArgs) >= 2 THEN controllerArgs[Len(controllerArgs) - 1]
    ELSE IdentityQ

\* update() was the most recent call, getters aside: the fields the setters
\* write are what that update() read
JustUpdated == updatesInARow > 0

\* the most recent update() found angleDelta / timeDelta above 0.61 rad/s
\* (x / 0 is Infinity for x > 0, and 0 / 0 is NaN, which is above nothing)
WasFast ==
    IF upd.timeDelta = 0 THEN upd.angleDelta > 0
    ELSE RDiv(upd.angleDelta * 1000, upd.timeDelta) > MIN_ANGULAR_SPEED

\* C1: every update() with angleDelta / timeDelta > MIN_ANGULAR_SPEED leaves
\* rootQ = slerp(rootQ before, headYawQ, angleDelta / 10), which is not
\* headYawQ unless rootQ was headYawQ already; every other update() leaves
\* rootQ = headYawQ.  angleDelta is the pointing angle between lastControllerQ
\* and controllerQ, headYawQ the yaw of headQ.
C1_RootBranch ==
    /\ upd.valid =>
          /\ rootQ = upd.rootQ
          /\ IF WasFast
             THEN /\ rootQ = Slerp[upd.rootBefore, upd.headYawQ, RDiv(upd.angleDelta, 10)]
                  /\ upd.rootBefore # upd.headYawQ => rootQ # upd.headYawQ
             ELSE rootQ = upd.headYawQ
    /\ JustUpdated =>
          /\ upd.angleDelta = quatAngle_(lastControllerQ, controllerQ)
          /\ upd.headYawQ = getHeadYawOrientation_(headQ)

\* C1 witness: a pointing change of 90 degrees within a 16 ms frame moved
\* rootQ part of the way from where it was toward a different headYawQ
C1_Witness ==
    /\ upd.valid
    /\ upd.timeDelta = 16
    /\ upd.angleDelta > DegToRad[89]
    /\ WasFast
    /\ rootQ # upd.rootBefore
    /\ rootQ # upd.headYawQ

\* C2: controllerQ is the latest argument of setControllerOrientation and
\* lastControllerQ the one before it (identity where there is none), whatever
\* calls of update(), the other setters and the getters came in between
C2_ControllerHistory ==
    /\ controllerQ = LatestControllerArg
    /\ lastControllerQ = PreviousControllerArg

\* C2 witness: three orientations were set, the last two differ, and
\* update() has run since
C2_Witness ==
    /\ Len(controllerArgs) >= 3
    /\ JustUpdated
    /\ lastControllerQ # controllerQ
    /\ lastControllerQ # IdentityQ
    /\ lastControllerQ # controllerArgs[1]

\* what "up to floating-point tolerance" allows between two components
Tolerance == S \div 200

QClose(a, b) ==
    /\ Abs(a.x - b.x) <= Tolerance
    /\ Abs(a.y - b.y) <= Tolerance
    /\ Abs(a.z - b.z) <= Tolerance
    /\ Abs(a.w - b.w) <= Tolerance

VClose(a, b) ==
    /\ Abs(a.x - b.x) <= Tolerance
    /\ Abs(a.y - b.y) <= Tolerance
    /\ Abs(a.z - b.z) <= Tolerance

\* the rotation the slerp of update() produced composes with elbowQ to
\* controllerCameraQ; the wristQ the chain uses is that rotation inverted
SlerpedComposes ==
    upd.valid =>
        /\ QClose(QMultiply[upd.elbowQ, upd.slerped], upd.controllerCameraQ)
        /\ upd.wristQ = QInverse[upd.slerped]
        /\ upd.invWristQ = upd.wristQ

\* C3: after update(), the wristQ and elbowQ used for the forward-kinematics
\* chain compose back to the camera-relative controller rotation:
\* elbowQ * wristQ = controllerCameraQ, up to tolerance
C3_JointsCompose ==
    upd.valid =>
        QClose(QMultiply[upd.elbowQ, upd.wristQ], upd.controllerCameraQ)

\* the wrist position the forward-kinematics chain gives for a wrist rotation
\* wq, with elbowQ = controllerCameraQ * inverse(wq)
ChainWristPosition(wq, cameraQ, ep) ==
    VAdd[ep, ApplyQuaternion[VAdd[ELBOW_WRIST_OFFSET,
                                  ApplyQuaternion[WRIST_CONTROLLER_OFFSET, wq]],
                             QMultiply[cameraQ, QInverse[wq]]]]

\* C4: after update(), wristPos = elbowPos + elbowQ applied to
\* (ELBOW_WRIST_OFFSET + wristQ applied to WRIST_CONTROLLER_OFFSET), with
\* wristQ = slerp(identity, controllerCameraQ, lerpValue) and
\* elbowQ = controllerCameraQ * inverse(wristQ), up to tolerance
C4_WristPosition ==
    upd.valid =>
        VClose(wristPos,
               ChainWristPosition(Slerp[IdentityQ, upd.controllerCameraQ, upd.lerpValue],
                                  upd.controllerCameraQ, elbowPos))

\* lerpValue as update() computes it from a total angle and an extension ratio
LerpValueAt(totalAngleDeg, extensionRatio) ==
    LerpValue(LerpSuppression(totalAngleDeg), extensionRatio)

\* extension ratios and total angles (hundredths of a degree) sampled for the
\* monotonicity of lerpValue
SampledRatios == {0, S \div 4, S \div 2, S}

SampledAngles == {0, 3000, 9000, 18000}

\* C5: lerpValue is the wrist's share of the camera-relative controller
\* rotation; at extensionRatio = 0 and totalAngle = 0 the wrist gets 60% and
\* the elbow 40%, and at a fixed totalAngle the wrist's share does not
\* decrease as extensionRatio rises
C5_WristShare ==
    /\ upd.valid =>
          /\ upd.slerped = Slerp[IdentityQ, upd.controllerCameraQ, upd.lerpValue]
          /\ (upd.extensionRatio = 0 /\ upd.totalAngle = 0)
                => upd.lerpValue = S - ELBOW_BEND_RATIO
    /\ \A a \in SampledAngles : \A r1 \in SampledRatios : \A r2 \in SampledRatios :
          r1 <= r2 => LerpValueAt(a, r1) <= LerpValueAt(a, r2)

\* the parts of C5 the code does satisfy: lerpValue is the slerp parameter of
\* the wrist rotation, 40% at extensionRatio = 0 and totalAngle = 0, and
\* non-decreasing in extensionRatio
WristShareOfCode ==
    /\ upd.valid =>
          /\ upd.slerped = Slerp[IdentityQ, upd.controllerCameraQ, upd.lerpValue]
          /\ (upd.extensionRatio = 0 /\ upd.totalAngle = 0)
                => upd.lerpValue = ELBOW_BEND_RATIO
    /\ \A a \in SampledAngles : \A r1 \in SampledRatios : \A r2 \in SampledRatios :
          r1 <= r2 => LerpValueAt(a, r1) <= LerpValueAt(a, r2)

SecondUpdateOfCode ==
    (updatesInARow >= 2 /\ upd.timeDelta = 0) =>
        /\ upd.angleDelta = quatAngle_(lastControllerQ, controllerQ)
        /\ IF upd.angleDelta = 0
           THEN upd.controllerAngularSpeed.nan /\ rootQ = upd.headYawQ
           ELSE /\ upd.controllerAngularSpeed.inf
                /\ rootQ = Slerp[upd.rootBefore, upd.headYawQ, RDiv(upd.angleDelta, 10)]

\* C7: a second update() right after a first, no setter called in between and
\* timeDelta = 0, takes the snap branch (its controllerAngularSpeed being 0)
\* and so leaves rootQ = headYawQ exactly
C7_SecondUpdateSnaps ==
    (updatesInARow >= 2 /\ upd.timeDelta = 0) => rootQ = upd.headYawQ

\* pitches, in hundredths of a degree, sampled around the limits 11 and 50
SampledPitches ==
    {-9000, -1100, 0, 1099, 1100, 1101, 2000, 3050, 4999, 5000, 5001, 9000}

\* on the sampled pitches extensionRatio is in [0, 1] and does not decrease
ExtensionRatioMonotone ==
    \A p1 \in SampledPitches : \A p2 \in SampledPitches :
        /\ 0 <= ExtensionRatio(p1) /\ ExtensionRatio(p1) <= S
        /\ p1 <= p2 => ExtensionRatio(p1) <= ExtensionRatio(p2)

\* C8: the extensionRatio update() computes from the controller's pitch (the
\* x of its YXZ Euler angles, in degrees) is in [0, 1]: 0 for pitch <= 11,
\* 1 for pitch >= 50, (pitch - 11) / 39 in between; and it does not decrease
\* as the pitch rises
C8_ExtensionRatio ==
    /\ JustUpdated => upd.controllerXDeg = RadToDeg[EulerYXZ[controllerQ].x]
    /\ upd.valid =>
          /\ 0 <= upd.extensionRatio /\ upd.extensionRatio <= S
          /\ upd.controllerXDeg <= 1100 => upd.extensionRatio = 0
          /\ upd.controllerXDeg >= 5000 => upd.extensionRatio = S
          /\ (1100 < upd.controllerXDeg /\ upd.controllerXDeg < 5000) =>
                upd.extensionRatio = RDiv((upd.controllerXDeg - 1100) * S, 3900)
    /\ ExtensionRatioMonotone

\* C8 witness: updates have seen a pitch between the limits, with a ratio
\* strictly between 0 and 1
C8_Witness ==
    /\ JustUpdated
    /\ 1100 < upd.controllerXDeg /\ upd.controllerXDeg < 5000
    /\ 0 < upd.extensionRatio /\ upd.extensionRatio < S

\* C9: right after every update(), elbowPos = headPos + HEAD_ELBOW_OFFSET +
\* ARM_EXTENSION_OFFSET * extensionRatio and pose.position = rootQ applied to
\* (wristPos + ARM_EXTENSION_OFFSET * extensionRatio); at extensionRatio = 0
\* elbowPos = headPos + HEAD_ELBOW_OFFSET and pose.position is what
\* getWristPosition() returns, at extensionRatio = 1 both carry the whole
\* ARM_EXTENSION_OFFSET
C9_Positions ==
    JustUpdated =>
        /\ elbowPos = VAdd[VAdd[headPos, HEAD_ELBOW_OFFSET],
                           VScale[ARM_EXTENSION_OFFSET, upd.extensionRatio]]
        /\ pose.position =
              ApplyQuaternion[VAdd[wristPos, VScale[ARM_EXTENSION_OFFSET, upd.extensionRatio]],
                              rootQ]
        /\ upd.extensionRatio = 0 =>
              /\ elbowPos = VAdd[headPos, HEAD_ELBOW_OFFSET]
              /\ pose.position = ApplyQuaternion[wristPos, rootQ]
        /\ upd.extensionRatio = S =>
              /\ elbowPos = VAdd[VAdd[headPos, HEAD_ELBOW_OFFSET], ARM_EXTENSION_OFFSET]
              /\ pose.position =
                    ApplyQuaternion[VAdd[wristPos, ARM_EXTENSION_OFFSET], rootQ]

\* C9 witness: the controller held steady at a pitch above 50 degrees, the
\* head away from the origin: elbowPos carries the whole extension offset
C9_Witness ==
    /\ JustUpdated
    /\ upd.extensionRatio = S
    /\ upd.angleDelta = 0
    /\ headPos # ZeroV
    /\ elbowPos = VAdd[VAdd[headPos, HEAD_ELBOW_OFFSET], ARM_EXTENSION_OFFSET]
    /\ pose.position # ApplyQuaternion[wristPos, rootQ]

\* what the getter named in ret returns in a state, from the fields alone
GetterValue ==
    CASE ret.of = "getPose" -> pose
      [] ret.of = "getForearmLength" -> S \div 4
      [] ret.of = "getElbowPosition" -> ApplyQuaternion[elbowPos, rootQ]
      [] ret.of = "getWristPosition" -> ApplyQuaternion[wristPos, rootQ]
      [] OTHER -> ZeroV

\* the result of an update() that is called next, 16 ms on
NextUpdate == UpdateLocals(clock + 16)

\* C10: a call of getPose(), getElbowPosition(), getWristPosition() or
\* getForearmLength() changes none of the fields controllerQ, lastControllerQ,
\* headQ, headPos, rootQ, elbowPos, wristPos, time, lastTime, pose; what it
\* returns is a function of those fields, so the same at every call until
\* the next setter or update(); called after an update(), it leaves the
\* result of the next update() what it was before the call;
\* getForearmLength() returns 0.25 in every state
C10_GettersPure ==
    /\ [](ret.of # "none" => ret.value = GetterValue)
    /\ [](ret.of = "getForearmLength" => ret.value = S \div 4)
    /\ [][ret'.of # "none" => fields' = fields]_vars
    /\ [][(JustUpdated /\ ret.of = "none" /\ ret'.of # "none") =>
             NextUpdate' = NextUpdate]_vars

\* C10 witness: getElbowPosition() was called after an update() that turned
\* the root: it returned elbowPos rotated, and elbowPos is still what the
\* update() left
C10_Witness ==
    /\ ret.of = "getElbowPosition"
    /\ upd.valid
    /\ rootQ # IdentityQ
    /\ ret.value # elbowPos
    /\ elbowPos = upd.elbowPos

\* C11: once the three setters have each been called once in a frame, in
\* whichever of the six orders, the fields are the same: each setter's field
\* holds its argument, lastControllerQ the controllerQ of the frame's start,
\* and every other field is as at the frame's start; the update() that
\* follows reads exactly these and so leaves the same state and pose
C11_OrderIndependent ==
    /\ Len(frame.log) = 3 =>
          /\ FrameCalled = {"setControllerOrientation", "setHeadOrientation",
                            "setHeadPosition"}
          /\ StartOfFrame =
                [frame.start EXCEPT
                    !.controllerQ = FrameArg("setControllerOrientation"),
                    !.lastControllerQ = frame.start.controllerQ,
                    !.headQ = FrameArg("setHeadOrientation"),
                    !.headPos = FrameArg("setHeadPosition")]
    /\ (frame.last.valid /\ frame.log = <<>>) =>
          /\ upd.time = frame.last.now
          /\ upd.timeDelta = TimeDelta(frame.last.now, frame.last.start.lastTime)
          /\ upd.rootBefore = frame.last.start.rootQ
          /\ upd.angleDelta = quatAngle_(frame.last.start.controllerQ, frame.last.controllerQ)
          /\ upd.headYawQ = getHeadYawOrientation_(frame.last.headQ)
          /\ upd.controllerXDeg = ControllerXDeg(frame.last.controllerQ)
          /\ upd.controllerCameraQ = ControllerCameraQ(rootQ, frame.last.controllerQ)
          /\ elbowPos = ElbowPosition(frame.last.headPos, upd.extensionRatio)
          /\ pose.orientation = frame.last.controllerQ
          /\ controllerQ = frame.last.controllerQ
          /\ lastControllerQ = frame.last.start.controllerQ
          /\ headQ = frame.last.headQ
          /\ headPos = frame.last.headPos

\* C11 witness: in the second frame the head position was set first and the
\* controller orientation last, every argument differing from the field's
\* value at the frame's start
C11_Witness ==
    /\ frame.n = 1
    /\ Len(frame.log) = 3
    /\ frame.log[1].call = "setHeadPosition"
    /\ frame.log[3].call = "setControllerOrientation"
    /\ controllerQ # frame.start.controllerQ
    /\ headQ # frame.start.headQ
    /\ headPos # frame.start.headPos
    /\ frame.start.controllerQ # IdentityQ

\* the stored values are numbers: no component is NaN or infinite
FinitePose ==
    /\ pose \in [orientation : Quaternion, position : Vector3]
    /\ rootQ \in Quaternion
    /\ elbowPos \in Vector3
    /\ wristPos \in Vector3

\* C12: every update(), the first (lastTime unset) and one with no time
\* elapsed included, completes and stores a pose of finite components; the
\* angular speed is Infinity or NaN exactly when no time elapsed, and then it
\* decides only the branch rootQ takes: NaN snaps to headYawQ, Infinity steps
\* toward it by angleDelta / 10; the rest of update() follows from that rootQ
C12_UpdateTotal ==
    /\ FinitePose
    /\ upd.valid =>
          /\ pose = [orientation |-> upd.orientation, position |-> upd.position]
          /\ upd.timeDelta >= 0
          /\ (upd.controllerAngularSpeed.nan \/ upd.controllerAngularSpeed.inf)
                <=> upd.timeDelta = 0
          /\ upd.controllerAngularSpeed.nan <=> (upd.timeDelta = 0 /\ upd.angleDelta = 0)
          /\ upd.controllerAngularSpeed.nan => rootQ = upd.headYawQ
          /\ upd.controllerAngularSpeed.inf =>
                rootQ = Slerp[upd.rootBefore, upd.headYawQ, RDiv(upd.angleDelta, 10)]
          /\ upd.controllerCameraQ = ControllerCameraQ(rootQ, upd.orientation)
          /\ upd.extensionRatio = ExtensionRatio(upd.controllerXDeg)
          /\ upd.lerpValue = LerpValue(upd.lerpSuppression, upd.extensionRatio)

\* C12 witness: an update() with no time elapsed and a controller that had
\* turned found an infinite speed, moved rootQ part of the way, and stored a
\* pose away from the origin
C12_Witness ==
    /\ upd.valid
    /\ upd.timeDelta = 0
    /\ upd.controllerAngularSpeed.inf
    /\ rootQ # upd.rootBefore
    /\ rootQ # upd.headYawQ
    /\ FinitePose
    /\ pose.position # ZeroV

\* total angles from 0 to 180 degrees, a degree apart, in hundredths
WholeDegrees == {100 * d : d \in 0..180}

\* on [0, 180] degrees lerpSuppression is in [0, 1] and does not increase
\* from one degree to the next; with it lerpValue is in [0, 1] for every
\* sampled extension ratio
LerpSuppressionDecreases ==
    \A a \in WholeDegrees :
        /\ 0 <= LerpSuppression(a) /\ LerpSuppression(a) <= S
        /\ a < 18000 => LerpSuppression(a + 100) <= LerpSuppression(a)
        /\ \A r \in SampledRatios :
              0 <= LerpValueAt(a, r) /\ LerpValueAt(a, r) <= S

\* C13: lerpSuppression = 1 - (totalAngleDeg / 180) ^ 4 is 1 at 0 degrees and
\* 0 at 180, does not increase in between, and is in [0, 1] for every
\* totalAngle quatAngle_ returns (an angle in [0, pi]); lerpValue is in [0, 1]
C13_LerpSuppression ==
    /\ LerpSuppression(0) = S
    /\ LerpSuppression(18000) = 0
    /\ LerpSuppression(9000) = S - S \div 16
    /\ LerpSuppressionDecreases
    /\ upd.valid =>
          /\ 0 <= upd.totalAngle /\ upd.totalAngle <= PiS
          /\ upd.totalAngle = quatAngle_(upd.controllerCameraQ, IdentityQ)
          /\ upd.totalAngleDeg = RadToDeg[upd.totalAngle]
          /\ 0 <= upd.totalAngleDeg /\ upd.totalAngleDeg <= 18000
          /\ upd.lerpSuppression = LerpSuppression(upd.totalAngleDeg)
          /\ 0 <= upd.lerpSuppression /\ upd.lerpSuppression <= S
          /\ 0 <= upd.lerpValue /\ upd.lerpValue <= S

\* C13 witness: an update() found the controller more than 80 degrees from
\* the camera's forward direction, with a suppression strictly between 0 and 1
C13_Witness ==
    /\ upd.valid
    /\ upd.totalAngleDeg > 8000
    /\ 0 < upd.lerpSuppression /\ upd.lerpSuppression < S
    /\ 0 < upd.lerpValue /\ upd.lerpValue < ELBOW_BEND_RATIO

\* the step is a call of update()
UpdateStep == updatesInARow' = updatesInARow + 1

\* C14: update() sets lastTime to the clock value it read at its start and
\* no other call writes lastTime; so every update() after the first uses as
\* timeDelta the clock difference to the update() before it, and from the
\* first update() on lastTime <= time, the clock not running backwards
C14_LastTime ==
    /\ [](~upd.valid => (lastTime = Null /\ time = Null))
    /\ [](upd.valid =>
             /\ lastTime = upd.time
             /\ lastTime <= time
             /\ time <= clock)
    /\ [][UpdateStep =>
             /\ lastTime' = clock'
             /\ upd'.time = clock'
             /\ upd.valid => upd'.timeDelta = clock' - upd.time]_vars
    /\ [][~UpdateStep => (lastTime' = lastTime /\ time' = time)]_vars

\* C14 witness: an update() 16 ms after the page's first clock reading, and
\* then one a second later, which used a timeDelta of that second
C14_Witness ==
    /\ upd.valid
    /\ updatesInARow >= 1
    /\ upd.time = StartClock + 1016
    /\ upd.timeDelta = 1000
    /\ lastTime = upd.time

\* the most recent update() was the first: it found lastTime unset
FirstUpdate == upd.valid /\ upd.lastTimeBefore = Null

\* C15 as stated: the first update() after construction takes the snap
\* branch and leaves rootQ = headYawQ, whatever controller orientation was
\* set before it and whatever the clock read
C15_FirstUpdateSnaps == FirstUpdate => rootQ = upd.headYawQ

\* C15 amended: the first update() takes as timeDelta the clock reading
\* itself (the unset lastTime counting as 0) and starts from the identity
\* rootQ; it steps toward headYawQ by angleDelta / 10 when angleDelta over
\* that timeDelta is above MIN_ANGULAR_SPEED, and snaps to headYawQ otherwise,
\* as it does when the last two controller orientations point the same way
C15_FirstUpdate ==
    FirstUpdate =>
        /\ upd.timeDelta = upd.time
        /\ upd.rootBefore = IdentityQ
        /\ IF WasFast
           THEN rootQ = Slerp[IdentityQ, upd.headYawQ, RDiv(upd.angleDelta, 10)]
           ELSE rootQ = upd.headYawQ
        /\ upd.angleDelta = 0 => rootQ = upd.headYawQ

\* C15 witness: a controller orientation 90 degrees off was set before the
\* first update(), which then moved rootQ only part of the way to headYawQ
C15_Witness ==
    /\ FirstUpdate
    /\ upd.angleDelta > DegToRad[89]
    /\ WasFast
    /\ rootQ # upd.headYawQ
    /\ rootQ # IdentityQ

\* the controller orientation the update() of the previous frame used
UsedLastFrame == simUsed[Len(simUsed)]

\* C16: in the simulator's frame loop every read of getPose() comes after the
\* update() of the same frame and returns that update()'s pose; and in every
\* frame after the first, when update() runs lastControllerQ is the controller
\* orientation the previous frame's update() used: the setters copied it, so
\* the caller writing new values into its own objects did not change it
C16_SimulatorFrames ==
    /\ simDrawn.of = "render" => simDrawn.afterUpdate
    /\ simPc = "requestAnimationFrame" =>
          /\ simUpdated
          /\ ret = [of |-> "getPose", value |-> pose]
          /\ simDrawn.pose = pose
          /\ upd.valid /\ upd.time = clock
          /\ pose = [orientation |-> upd.orientation, position |-> upd.position]
          /\ pose.orientation = controllerOrientation
          /\ Len(simUsed) = simFrames + 1
    /\ (simPc = "setControllerOrientation" /\ simFrames >= 1) =>
          controllerQ = UsedLastFrame
    /\ (simPc \in {"setHeadOrientation", "setHeadPosition", "update"} /\ simFrames >= 1) =>
          /\ lastControllerQ = UsedLastFrame
          /\ controllerQ = controllerOrientation
    /\ (simPc = "render" /\ simFrames >= 1) =>
          /\ lastControllerQ = simUsed[Len(simUsed) - 1]
          /\ controllerQ = UsedLastFrame
          /\ upd.angleDelta = quatAngle_(simUsed[Len(simUsed) - 1], UsedLastFrame)

\* C16 witness: the second frame's update() has run; the sliders had moved
\* between the frames, and lastControllerQ is the first frame's orientation,
\* not the identity and not the new one
C16_Witness ==
    /\ simFrames = 1
    /\ simPc = "render"
    /\ Len(simUsed) = 2
    /\ simUsed[1] # simUsed[2]
    /\ simUsed[1] # IdentityQ
    /\ lastControllerQ = simUsed[1]
    /\ controllerOrientation = simUsed[2]

\* the body the code registers together with a mesh: the body a visual of
\* the ragdoll was made from, the body addArm makes, the body addFace makes
RegisteredWith(mesh) == CASE mesh = "lowerLeftLegMesh" -> "lowerLeftLeg" [] mesh = "lowerRightLegMesh" -> "lowerRightLeg" [] mesh = "rightArm" -> "armBody" [] OTHER -> "faceBody"

\* C17: with the SceneManager's constructor, its two callbacks in either
\* order, and replaceHead and updatePhysics calls between them, meshes and
\* bodies always have the same length, every mesh sits at the index of the
\* body registered with it, and updatePhysics has read no missing body
C17_MeshesPairBodies ==
    /\ Len(meshes) = Len(bodies)
    /\ \A i \in 1..Len(meshes) : i <= Len(bodies) /\ bodies[i] = RegisteredWith(meshes[i])
    /\ \A i \in 1..Len(synced) : synced[i] # "TypeError" /\ synced[i] = bodies[i]

\* C17 witness: addArm ran before addFace, the head has been replaced since,
\* and updatePhysics has run over all four meshes
C17_Witness ==
    /\ callbacks = {}
    /\ Len(meshes) = 4
    /\ meshes[3] = "rightArm"
    /\ cube \notin {"main", Undefined}
    /\ meshes[4] = cube
    /\ synced = <<"lowerLeftLeg", "lowerRightLeg", "armBody", "faceBody">>

\* the pointer constraints the world holds
PointerConstraints == {world.constraints[i] : i \in 1..Len(world.constraints)}

\* C18: the world holds at most one pointer constraint, it is the one
\* pointerConstraint refers to, and pointerConstraint is null exactly when
\* the world holds none
C18_OnePointerConstraint ==
    /\ Len(world.constraints) <= 1
    /\ pointerConstraint # Null => PointerConstraints = {pointerConstraint}
    /\ pointerConstraint = Null <=> PointerConstraints = {}

\* the names of the face models
FaceModelNames == {"main"} \cup {PhonemeModel(p) : p \in Phonemes}

\* the mesh registered with a body before any head was replaced
FirstMeshOf(body) == CASE body = "lowerLeftLeg" -> "lowerLeftLegMesh" [] body = "lowerRightLeg" -> "lowerRightLegMesh" [] body = "armBody" -> "rightArm" [] OTHER -> "main"

\* C19: once addFace has run, whatever replaceHead calls followed, exactly
\* one face model is in the scene, it is this.cube, and meshes holds it
\* exactly once, at the index addFace registered the head at; the length of
\* meshes and its other entries are as they were registered
C19_OneHead ==
    cube # Undefined =>
        /\ cube \in faceModels
        /\ scene \cap FaceModelNames = {cube}
        /\ Len(meshes) = Len(bodies)
        /\ \A i \in 1..Len(meshes) : meshes[i] = cube <=> bodies[i] = "faceBody"
        /\ Cardinality({i \in 1..Len(meshes) : meshes[i] = cube}) = 1
        /\ \A i \in 1..Len(meshes) : bodies[i] # "faceBody" => meshes[i] = FirstMeshOf(bodies[i])

\* C19 witness: the chain has called replaceHead twice in a row with the
\* same model, which is the head now, with the arm registered as well
C19_Witness ==
    /\ Len(meshes) = 4
    /\ Len(said) >= 2
    /\ said[Len(said)] = said[Len(said) - 1]
    /\ cube = said[Len(said)]
    /\ cube # "main"

\* the phoneme list as the claim gives it
ClaimedPhonemes == <<"W", "eh", "K", "aah", "B,M,P", "D,S,T", "ooh,Q", "W", "eh", "B,M,P", "eh", "K", "D,S,T", "aah", "F,V", "i", "D,S,T", "i", "K", "D,S,T">>

\* the models of the loaded phonemes among the first n of the list
RECURSIVE LoadedAmong(_)
LoadedAmong(n) == IF n = 0 THEN <<>> ELSE LoadedAmong(n - 1) \o (IF PhonemeModel(ClaimedPhonemes[n]) \in faceModels THEN <<PhonemeModel(ClaimedPhonemes[n])>> ELSE <<>>)

\* the step of the chain whose timer is pending
WelcomeStep == Head(timers)

\* the chain of sayWelcome is where the claim says it is
WelcomeInOrder ==
    /\ Len(timers) <= 1
    /\ cube # Undefined <=> timers # <<>>
    /\ timers # <<>> => WelcomeStep \in 1..Len(ClaimedPhonemes) /\ said = LoadedAmong(WelcomeStep - 1)
    /\ timers = <<>> => said = <<>>
    /\ saidBefore # <<>> => saidBefore = LoadedAmong(Len(ClaimedPhonemes)) \o <<"main">>

\* C20: once addFace has started sayWelcome, the heads the chain shows are
\* the models of the loaded phonemes in the order of the list, then 'main';
\* one timer at most is pending and each step waits for the timer of the
\* step before; a phoneme with no model is passed over; and the chain comes
\* to its last step and from there starts again with 'main' as the head
C20_Welcome ==
    /\ []WelcomeInOrder
    /\ (timers # <<>> /\ WelcomeStep = 1) ~> (timers # <<>> /\ WelcomeStep = Len(ClaimedPhonemes))
    /\ (timers # <<>> /\ WelcomeStep = Len(ClaimedPhonemes)) ~> (timers # <<>> /\ WelcomeStep = 1 /\ cube = "main" /\ saidBefore # <<>>)

\* C20 witness: with the models of three phonemes loaded, a chain has been
\* completed, showing nine phoneme heads and then 'main', and the next chain
\* is under way
C20_Witness ==
    /\ faceModels = {"main", "PhonemeW", "Phonemeeh", "PhonemeD,S,T"}
    /\ saidBefore = <<"PhonemeW", "Phonemeeh", "PhonemeD,S,T", "PhonemeW", "Phonemeeh", "Phonemeeh", "PhonemeD,S,T", "PhonemeD,S,T", "PhonemeD,S,T", "main">>
    /\ said = <<"PhonemeW", "Phonemeeh">>
    /\ timers = <<4>>
=============================================================================
